---- MODULE Spec2Model ----
(***************************************************************************)
(* Alerting decision logic of the navigation assistant.                    *)
(*                                                                         *)
(*   fast loop   src/unnamed/part_002 : frame processor + idle announcer   *)
(*   slow loop   src/App.tsx          : timer driven scanner               *)
(*   TTSService  src/mobile_app/src/services/TTSService.js                 *)
(*   detection loop  src/mobile_app/src/screens/NavigationScreen.js        *)
(*                   with APIService, src/unnamed/part_007                 *)
(*                                                                         *)
(* Time is Date.now() in milliseconds.  Distances are kept in millimetres, *)
(* rounded down: every comparison the code makes is against a whole number *)
(* of millimetres (0.5 m, 1.5 m, 3 m, 20 m), so rounding down does not     *)
(* change the outcome of any of them.                                      *)
(***************************************************************************)
EXTENDS Integers, Sequences, FiniteSets, TLC

VARIABLES
    clock,                 \* Date.now()
    \* ---- pure functions under test
    pIn,                   \* the arguments drawn for the pure functions
    pOut,                  \* their results, once done
    \* ---- fast loop (part_002)
    isActive,              \* useState(false)
    lastAnnouncementTime,  \* useRef(0)
    prevAnnouncementTime,  \* what lastAnnouncementTime was before its latest update
    detectedObjects,       \* useRef(new Map()): key -> record
    idleDue,               \* due time of the 3 s interval, NoTimer when cleared
    lastFrameTime,         \* last run of the runAtTargetFps body
    frameCount,            \* frames processed so far
    cycleInput,            \* detections handed to the last cycle
    cycleAlerts,           \* alerts (speech + haptic) emitted by the last cycle
    cycleThrew,            \* the last cycle ended in the clean-up's ReferenceError
    lastAlert,             \* the alert that set lastAnnouncementTime, NoAlert if
                           \* it was set by something else
    \* ---- TTSService
    ttsLastAnnouncement,       \* this.lastAnnouncement
    ttsLastAnnouncementTime,   \* this.lastAnnouncementTime
    ttsCmds,                   \* what the last speak call sent to the engine
    ttsSpokenAt,               \* text -> when the engine was last given it, 0 if never
    ttsRepeatGap,              \* ms since the same text was given to the engine before
    ttsUrgentUsed,             \* some speak call so far was urgent
    ttsCall,                   \* the arguments of the last speak call
    \* ---- slow loop (App.tsx)
    sIsActive,             \* useState(false)
    scanInterval,          \* due time of the 2 s interval, NoTimer when null
    sTimeouts,             \* due times of the pending setTimeout(..., 1000) calls
    sInFlight,             \* scans waiting for takePhoto
    sInstruction,          \* useState('Ready to navigate')
    sSpoken,               \* text of the last Tts.speak, "" if the last step spoke nothing
    sHaptic,               \* haptic of the last step, "none" if none
    sLastClearTime,        \* when 'Path is clear' was last spoken, 0 if never
    sClearGap,             \* ms between the two latest 'Path is clear' announcements
    sLastScanTime,         \* when the latest scan of this session began, 0 if none did
    sScanGap,              \* ms between the two latest scans of this session
    \* ---- NavigationScreen.js
    nIsPaused,             \* useState(false)
    nInterval,             \* due time of the 2 s detection interval
    nPending,              \* start times of the detectObjects calls not yet settled
    nLastInstruction,      \* useState('Navigation started')
    nCmds,                 \* what the last step sent to the speech engine
    nHaptic,               \* haptic of the last step, "none" if none
    nOutcome,              \* how the detection settled in the last step, "none" if none did
    nFailures,             \* detections that failed in a row, up to now
    nDetectBound,          \* the import of line 32 gave a function
    nTapCount,             \* tapCountRef.current
    nTapTimer,             \* due time of the timer in tapTimerRef, NoTimer if none is pending
    nTapClosure,           \* lastInstruction and isPaused as the pending timer callback holds them
    nBurst,                \* taps made since the last decision of the tap timer
    nTapsSoFar,            \* taps made since the screen was mounted
    nDecision,             \* what the tap timer last decided, and for how many taps
    \* ---- NavigationScreen_PRODUCTION.js
    wMounted,              \* the screen is mounted
    wPermission,           \* "pending" until the request settles, then useState value
    wIsNavigating,         \* useState(false)
    wSockets,              \* readyState of every WebSocket made so far, by number
    wWs,                   \* useState(null): number of the socket given to setWs
    wFrameInterval,        \* due time of the 500 ms frame interval, NoTimer if none
    wFrameWs,              \* the `ws` in the closure of the interval's callback
    wPhotos,               \* sockets of the cycles that wait for takePhoto
    wReplies,              \* sockets of the backend messages on their way
    wReconnects,           \* due times of the pending setTimeout(connectWebSocket, 3000)
    wLastInstruction,      \* useState('Navigation started')
    wCmds,                 \* what the last step sent to the speech engine
    wHaptic,               \* haptic of the last step, "none" if none
    wSend,                 \* what the last step did about ws.send, "none" if nothing
    wSentTo,               \* the sockets that were sent a frame while they were open
    \* ---- the screens of App.js (part_006) and their gestures
    gStack,                \* the routes of the stack navigator, the focused one last
    hTapCount,             \* tapCountRef.current of HomeScreen
    hTapTimer,             \* due time of the timer in its tapTimerRef, NoTimer if none
    hBurst,                \* taps made on Home since the last decision of its timer
    hTapsSoFar,            \* taps made on Home in this run
    hDecision,             \* the burst the Home timer last decided
    gSpeechRate,           \* useState(0.5) of NavigationScreen, in tenths
    gPanRate,              \* `speechRate` in the closure of the panResponder
    gUps,                  \* swipes up since NavigationScreen was mounted
    gDowns,                \* swipes down since then
    ePending,              \* location lookups of EmergencyScreen not yet settled
    eTapsSoFar,            \* taps made on the Emergency screen in this run
    eSmsOpened,            \* SMS composers opened in this run
    eAlerts,               \* 'Emergency Alert Sent' alerts waiting for their OK
    eLookup,               \* how the lookup of the last step ended and what was opened
    gGesture,              \* the gesture of the last step and the screen it was made on
    gNavigated,            \* the route the last step navigated to, "none" if none
    gCmds,                 \* what the last step sent to the speech engine
    lastOp                 \* the operation that produced this state

pureVars == << pIn, pOut >>

fastVars == << isActive, lastAnnouncementTime, prevAnnouncementTime, detectedObjects,
               idleDue, lastFrameTime, frameCount, cycleInput, cycleAlerts,
               cycleThrew, lastAlert >>

ttsVars == << ttsLastAnnouncement, ttsLastAnnouncementTime, ttsCmds, ttsSpokenAt,
              ttsRepeatGap, ttsUrgentUsed, ttsCall >>

slowVars == << sIsActive, scanInterval, sTimeouts, sInFlight, sInstruction, sSpoken,
               sHaptic, sLastClearTime, sClearGap, sLastScanTime, sScanGap >>

tapVars == << nTapCount, nTapTimer, nTapClosure, nBurst, nTapsSoFar, nDecision >>

navVars == << nIsPaused, nInterval, nPending, nLastInstruction, nCmds, nHaptic,
              nOutcome, nFailures, nDetectBound, tapVars >>

prodVars == << wMounted, wPermission, wIsNavigating, wSockets, wWs, wFrameInterval,
               wFrameWs, wPhotos, wReplies, wReconnects, wLastInstruction, wCmds,
               wHaptic, wSend, wSentTo >>

gestVars == << gStack, hTapCount, hTapTimer, hBurst, hTapsSoFar, hDecision,
               gSpeechRate, gPanRate, gUps, gDowns, ePending, eTapsSoFar, eSmsOpened,
               eAlerts, eLookup, gGesture, gNavigated, gCmds >>

vars == << clock, pureVars, fastVars, ttsVars, slowVars, navVars, prodVars, gestVars, lastOp >>

----------------------------------------------------------------------------
(* Bounds of the model *)

StartClock == 10000     \* Date.now() when the component is constructed
MaxElapsed == 6000      \* the clock stops advancing this long after StartClock
TickMs == 1000          \* granularity of the passage of time
MaxDetections == 2      \* longest detection list of one cycle
MaxFrames == 2          \* frames the camera delivers in one run of the model

FrameWidth == 1000      \* frame.width of the camera frames

NoTimer == 0 - 1
NoGap == 0 - 1
NoAlert == [key |-> << "none", "none" >>, tier |-> "none"]

Min(a, b) == IF a < b THEN a ELSE b
Max(a, b) == IF a > b THEN a ELSE b

----------------------------------------------------------------------------
(* Pure functions of part_002 *)

\* objectHeights, in millimetres
objectHeights ==
    [ person |-> 1700, car |-> 1500, bicycle |-> 1100, motorcycle |-> 1200,
      bus |-> 3000, truck |-> 3500, chair |-> 900, bottle |-> 250,
      cup |-> 120, book |-> 250 ]

\* a table lookup that falls back to the height of a person
realHeightOf_personDefault(objectType) ==
    IF objectType \in DOMAIN objectHeights THEN objectHeights[objectType] ELSE 1700

\* objectHeights[objectType] || 1.0, for the category names of the detector (names
\* that an object literal inherits, such as 'constructor', are not among them)
realHeightOf(objectType) ==
    IF objectType \in DOMAIN objectHeights THEN objectHeights[objectType] ELSE 1000

focalLength == 1000

\* stands for the IEEE +Infinity that a division of a positive number by 0 gives
PosInfinity == 1000000000

\* (realHeight * focalLength) / pixelHeight, in millimetres
rawDistance(pixelHeight, objectType) ==
    LET num == realHeightOf(objectType) * focalLength
    IN  IF pixelHeight > 0 THEN num \div pixelHeight
        ELSE IF pixelHeight = 0 THEN PosInfinity
        ELSE 0 - ((num + (0 - pixelHeight) - 1) \div (0 - pixelHeight))

\* the estimator without its clamp
estimateDistance_noClamp(bbox, objectType) == rawDistance(bbox.height, objectType)

\* Math.min(Math.max(distance, 0.5), 20)
estimateDistance(bbox, objectType) ==
    Min(Max(rawDistance(bbox.height, objectType), 500), 20000)

\* the same split with the two boundaries given to the sides
getPosition_inclusive(bbox, frameWidth) ==
    LET twiceCenterX == 2 * bbox.x + bbox.width
    IN  IF 100 * twiceCenterX <= 66 * frameWidth THEN "left"
        ELSE IF 100 * twiceCenterX >= 134 * frameWidth THEN "right"
        ELSE "center"

\* centerX / frameWidth against 0.33 and 0.67, for frameWidth > 0
getPosition(bbox, frameWidth) ==
    LET twiceCenterX == 2 * bbox.x + bbox.width
    IN  IF 100 * twiceCenterX < 66 * frameWidth THEN "left"
        ELSE IF 100 * twiceCenterX > 134 * frameWidth THEN "right"
        ELSE "center"

\* the same advice with the critical tier ending at 1.0 m
getDirectionAdvice_oneMetre(position, distance) ==
    IF distance < 1000 THEN
        IF position = "center" THEN "STOP! Obstacle ahead!"
        ELSE IF position = "left" THEN "Move right to avoid"
        ELSE "Move left to avoid"
    ELSE IF distance < 3000 THEN
        IF position = "center" THEN "Slow down, obstacle ahead"
        ELSE IF position = "left" THEN "Object on your left"
        ELSE "Object on your right"
    ELSE "Path is clear"

getDirectionAdvice(position, distance) ==
    IF distance < 1500 THEN
        IF position = "center" THEN "STOP! Obstacle ahead!"
        ELSE IF position = "left" THEN "Move right to avoid"
        ELSE "Move left to avoid"
    ELSE IF distance < 3000 THEN
        IF position = "center" THEN "Slow down, obstacle ahead"
        ELSE IF position = "left" THEN "Object on your left"
        ELSE "Object on your right"
    ELSE "Path is clear"

\* the tiers of HapticService.distanceFeedback in place of the branch below
hapticOf_distanceFeedback(distance) ==
    IF distance < 1000 THEN "impactHeavy"
    ELSE IF distance < 2000 THEN "impactMedium"
    ELSE IF distance < 3000 THEN "impactLight"
    ELSE "none"

\* the haptic branch of the frame processor: notificationError below 1.5 m,
\* notificationWarning below 3 m, nothing otherwise
hapticOf(distance) ==
    IF distance < 1500 THEN "notificationError"
    ELSE IF distance < 3000 THEN "notificationWarning"
    ELSE "none"

\* a trigger of ReactNativeHapticFeedback and the delay of its setTimeout in ms
Pulse(delay, trigger) == [delay |-> delay, trigger |-> trigger]

\* mutant of distanceFeedback: 0.5 m itself counts as very close
distanceFeedback_veryCloseInclusive(distance) ==
    IF distance <= 500
    THEN << Pulse(0, "impactHeavy"), Pulse(200, "impactHeavy"), Pulse(400, "impactHeavy") >>
    ELSE IF distance < 1000
    THEN << Pulse(0, "impactHeavy"), Pulse(200, "impactHeavy") >>
    ELSE IF distance < 2000 THEN << Pulse(0, "impactMedium") >>
    ELSE IF distance < 3000 THEN << Pulse(0, "impactLight") >>
    ELSE << >>

\* HapticService.distanceFeedback(distance): the triggers it makes, strong()
\* being impactHeavy, medium() impactMedium and light() impactLight
distanceFeedback(distance) ==
    IF distance < 500
    THEN << Pulse(0, "impactHeavy"), Pulse(200, "impactHeavy"), Pulse(400, "impactHeavy") >>
    ELSE IF distance < 1000
    THEN << Pulse(0, "impactHeavy"), Pulse(200, "impactHeavy") >>
    ELSE IF distance < 2000 THEN << Pulse(0, "impactMedium") >>
    ELSE IF distance < 3000 THEN << Pulse(0, "impactLight") >>
    ELSE << >>

\* the severity tier the code acts on (the thresholds of the two branches above)
tierOf(distance) ==
    IF distance < 1500 THEN "critical"
    ELSE IF distance < 3000 THEN "warning"
    ELSE "safe"

tierRank(tier) == IF tier = "critical" THEN 3 ELSE IF tier = "warning" THEN 2 ELSE 1

\* the texts handed to TTSService.speak
TtsTexts == {"Obstacle ahead", "Path clear"}

\* the labels of the table and one the table does not hold
PureLabels == (DOMAIN objectHeights) \cup {"dog"}

\* pixel heights: negative, zero, tiny, ordinary, larger than any frame
PureHeights == {0 - 300, 0 - 1, 0, 1, 6, 50, 85, 300, 850, 2000, 7000, 100000}

NoInput == [label |-> "none", box |-> [x |-> 0, width |-> 0, height |-> 0]]
NoOutput == [done |-> FALSE, distance |-> 0, position |-> "", direction |-> "",
             pulses |-> << >>]

----------------------------------------------------------------------------
(* Fast loop: the frame processor and the idle announcer of part_002 *)

\* one entry of the detector's output; confidence in percent
RawDetection(l, c, x, w, h) ==
    [label |-> l, confidence |-> c, box |-> [x |-> x, width |-> w, height |-> h]]

Detection(l, x, h) == RawDetection(l, 90, x, 150, h)

\* what the detector can hand to one cycle: a person in the centre of the frame
\* at 0.85 m, 2.0 m and 5.67 m, a car on the left at 1.76 m and 5.0 m
Detections ==
    { Detection("person", 425, h) : h \in {2000, 850, 300} }
        \cup { Detection("car", 100, h) : h \in {850, 300} }

DetectionLists == UNION { [1..n -> Detections] : n \in 0..MaxDetections }

\* Map.prototype.set
MapSet(m, key, value) ==
    [k \in (DOMAIN m) \cup {key} |-> IF k = key THEN value ELSE m[k]]

EmptyMap == [k \in {} |-> 0]

\* the announce condition without its throttle
ShouldAnnounce_noThrottle(now, last, distance, position) ==
    distance < 3000 \/ position = "center"

\* the same condition with a window of half a second
ShouldAnnounce_shortWindow(now, last, distance, position) ==
    /\ now - last > 500
    /\ (distance < 3000 \/ position = "center")

\* if (now - lastAnnouncementTime.current > 2000 && (distance < 3 || position === 'center'))
ShouldAnnounce(now, last, distance, position) ==
    /\ now - last > 2000
    /\ (distance < 3000 \/ position = "center")

\* the decimal ties x.x5 up to 3 m whose double lies below the tie, as the double
\* of 0.85 does (0.84999999999999997...); their first decimal is the lower one
TiesBelow == {850, 950, 1150, 1450, 1650, 1950, 2050, 2150, 2550, 2650}

\* distance.toFixed(1): the number of tenths nearest to the double, and its text
toFixed1(distance) ==
    LET tenths == IF distance \in TiesBelow THEN distance \div 100
                  ELSE (distance + 50) \div 100
    IN  ToString(tenths \div 10) \o "." \o ToString(tenths % 10)

\* the message with a phrase for the position in place of the position itself
messageOf_positionPhrase(label, position, distance, direction) ==
    label \o " "
          \o (IF position = "center" THEN "ahead" ELSE "on your " \o position)
          \o ", " \o toFixed1(distance) \o " meters. " \o direction

\* `${detection.label} ${position}, ${distance.toFixed(1)} meters. ${direction}`
messageOf(label, position, distance, direction) ==
    label \o " " \o position \o ", " \o toFixed1(distance) \o " meters. "
          \o direction

\* the body of `for (const detection of mockDetections)`, run at Date.now() = now;
\* st carries lastAnnouncementTime (last) and its value before the latest update
\* (prev), detectedObjects (objs) and what was emitted so far (alerts)
ProcessDetection(st, detection, now) ==
    LET distance == estimateDistance(detection.box, detection.label)
        position == getPosition(detection.box, FrameWidth)
        direction == getDirectionAdvice(position, distance)
        key == << detection.label, position >>
        objs == MapSet(st.objs, key,
                       [label |-> detection.label, distance |-> distance,
                        position |-> position, direction |-> direction,
                        timestamp |-> now])
        alert == [label |-> detection.label, position |-> position,
                  distance |-> distance, direction |-> direction,
                  message |-> messageOf(detection.label, position, distance,
                                        direction),
                  haptic |-> hapticOf(distance), time |-> now]
    IN  IF ShouldAnnounce(now, st.last, distance, position)
        THEN [objs |-> objs, last |-> now, prev |-> st.last,
              alerts |-> Append(st.alerts, alert)]
        ELSE [st EXCEPT !.objs = objs]

\* the whole for loop, from iteration i on.  The loop is synchronous: every
\* iteration of one cycle reads the same millisecond from Date.now()
RECURSIVE ProcessDetections(_, _, _, _)
ProcessDetections(st, dets, i, now) ==
    IF i > Len(dets) THEN st
    ELSE ProcessDetections(ProcessDetection(st, dets[i], now), dets, i + 1, now)

\* `const now` of the for body is block scoped: in the clean-up loop after it
\* the name `now` is not bound
cleanupNowBound == FALSE

\* for (const [key, obj] of detectedObjects.current.entries())
\*     if (now - obj.timestamp > 5000) detectedObjects.current.delete(key)
CleanUp(objs, now) ==
    IF cleanupNowBound
    THEN [k \in {j \in DOMAIN objs : ~(now - objs[j].timestamp > 5000)} |-> objs[k]]
    ELSE objs

\* evaluating `now` in the first iteration of the clean-up loop raises
CleanUpThrows(objs) == (DOMAIN objs # {}) /\ ~cleanupNowBound

\* the state after construction of the TTSService singleton
TtsConstructed ==
    /\ ttsLastAnnouncement = ""
    /\ ttsLastAnnouncementTime = 0
    /\ ttsCmds = << >>
    /\ ttsSpokenAt = [t \in TtsTexts |-> 0]
    /\ ttsRepeatGap = NoGap
    /\ ttsUrgentUsed = FALSE
    /\ ttsCall = [text |-> "", urgent |-> FALSE]

\* the state after the first render of the App of App.tsx
SlowConstructed ==
    /\ sIsActive = FALSE
    /\ scanInterval = NoTimer
    /\ sTimeouts = {}
    /\ sInFlight = 0
    /\ sInstruction = "Ready to navigate"
    /\ sSpoken = ""
    /\ sHaptic = "none"
    /\ sLastClearTime = 0
    /\ sClearGap = NoGap
    /\ sLastScanTime = 0
    /\ sScanGap = NoGap

\* a phrase with nothing filled in, such as 'Navigation started'
FixedPhrase(text) == [text |-> text, object |-> "", direction |-> "", distance |-> 0]

\* `${object} ahead, ${direction}, ${distance} meters`
Instruction(object, direction, distance) ==
    [text |-> "ahead", object |-> object, direction |-> direction, distance |-> distance]

\* Tts.speak(phrase) and Tts.stop()
SpeakCmd(phrase) == [op |-> "speak", phrase |-> phrase]
StopCmd == [op |-> "stop", phrase |-> FixedPhrase("")]

NoGesture == [kind |-> "none", screen |-> "none"]
NoLookup == [found |-> FALSE, sms |-> "none"]

\* the state after App is mounted: Home is the initial route and has spoken
AppConstructed ==
    /\ gStack = << "Home" >>
    /\ hTapCount = 0
    /\ hTapTimer = NoTimer
    /\ hBurst = 0
    /\ hTapsSoFar = 0
    /\ hDecision = [taps |-> 0, burst |-> 0]
    /\ gSpeechRate = 5
    /\ gPanRate = 5
    /\ gUps = 0
    /\ gDowns = 0
    /\ ePending = 0
    /\ eTapsSoFar = 0
    /\ eSmsOpened = 0
    /\ eAlerts = 0
    /\ eLookup = NoLookup
    /\ gGesture = NoGesture
    /\ gNavigated = "none"
    /\ gCmds = << "Navigation ready. Double tap to start." >>

\* the state after the production screen is mounted: the first render and the
\* mount effect, which asks for the camera and makes the first socket
ProdConstructed ==
    /\ wMounted = TRUE
    /\ wPermission = "pending"
    /\ wIsNavigating = FALSE
    /\ wSockets = << "connecting" >>
    /\ wWs = 1
    /\ wFrameInterval = NoTimer
    /\ wFrameWs = 0
    /\ wPhotos = << >>
    /\ wReplies = << >>
    /\ wReconnects = {}
    /\ wLastInstruction = FixedPhrase("Navigation started")
    /\ wCmds = << >>
    /\ wHaptic = "none"
    /\ wSend = "none"
    /\ wSentTo = {}

NoDecision == [taps |-> 0, kind |-> "none", burst |-> 0, wasPaused |-> FALSE]

\* the gesture refs of NavigationScreen after the first render
TapConstructed ==
    /\ nTapCount = 0
    /\ nTapTimer = NoTimer
    /\ nTapClosure = [lastInstruction |-> FixedPhrase("Navigation started"),
                      isPaused |-> FALSE]
    /\ nBurst = 0
    /\ nTapsSoFar = 0
    /\ nDecision = NoDecision

\* the state after NavigationScreen is mounted: the first render and the first
\* run of the effect, which speaks and arms the detection interval
NavConstructed ==
    /\ nIsPaused = FALSE
    /\ nInterval = StartClock + 2000
    /\ nPending = {}
    /\ nLastInstruction = FixedPhrase("Navigation started")
    /\ nCmds = << SpeakCmd(FixedPhrase("Navigation started")) >>
    /\ nHaptic = "none"
    /\ nOutcome = "none"
    /\ nFailures = 0
    /\ nDetectBound = FALSE
    /\ TapConstructed

\* the state after the first render of the App of part_002
FastConstructed ==
    /\ isActive = FALSE
    /\ lastAnnouncementTime = 0
    /\ prevAnnouncementTime = 0
    /\ detectedObjects = EmptyMap
    /\ idleDue = NoTimer
    /\ lastFrameTime = 0
    /\ frameCount = 0
    /\ cycleInput = << >>
    /\ cycleAlerts = << >>
    /\ cycleThrew = FALSE
    /\ lastAlert = NoAlert

FastInit ==
    /\ clock = StartClock
    /\ pIn = NoInput
    /\ pOut = NoOutput
    /\ TtsConstructed
    /\ SlowConstructed
    /\ NavConstructed
    /\ AppConstructed
    /\ ProdConstructed
    /\ isActive = FALSE
    /\ lastAnnouncementTime = 0
    /\ prevAnnouncementTime = 0
    /\ detectedObjects = EmptyMap
    /\ idleDue = NoTimer
    /\ lastFrameTime = 0
    /\ frameCount = 0
    /\ cycleInput = << >>
    /\ cycleAlerts = << >>
    /\ cycleThrew = FALSE
    /\ lastAlert = NoAlert
    /\ lastOp = "init"

\* time passes; a timer that is due runs before the clock moves on
Advance ==
    /\ clock + TickMs <= StartClock + MaxElapsed
    /\ (idleDue = NoTimer \/ clock < idleDue)
    /\ clock' = clock + TickMs
    /\ lastOp' = "advance"
    /\ cycleInput' = << >>
    /\ cycleAlerts' = << >>
    /\ cycleThrew' = FALSE
    /\ UNCHANGED << isActive, lastAnnouncementTime, prevAnnouncementTime,
                    detectedObjects, idleDue,
                    lastFrameTime, frameCount, lastAlert >>
    /\ UNCHANGED << pureVars, ttsVars, slowVars, navVars, prodVars, gestVars >>

\* startNavigation, and the effect on [isActive] that arms the 3 s interval
startNavigation ==
    /\ ~isActive
    /\ isActive' = TRUE
    /\ idleDue' = clock + 3000
    /\ lastOp' = "start"
    /\ cycleInput' = << >>
    /\ cycleAlerts' = << >>
    /\ cycleThrew' = FALSE
    /\ UNCHANGED << clock, lastAnnouncementTime, prevAnnouncementTime,
                    detectedObjects, lastFrameTime, frameCount, lastAlert >>
    /\ UNCHANGED << pureVars, ttsVars, slowVars, navVars, prodVars, gestVars >>

\* stopNavigation, and the effect's clean-up that clears the interval
stopNavigation ==
    /\ isActive
    /\ isActive' = FALSE
    /\ detectedObjects' = EmptyMap
    /\ idleDue' = NoTimer
    /\ lastOp' = "stop"
    /\ cycleInput' = << >>
    /\ cycleAlerts' = << >>
    /\ cycleThrew' = FALSE
    /\ UNCHANGED << clock, lastAnnouncementTime, prevAnnouncementTime,
                    lastFrameTime, frameCount, lastAlert >>
    /\ UNCHANGED << pureVars, ttsVars, slowVars, navVars, prodVars, gestVars >>

\* if (now - lastAnnouncementTime.current > 3000) if (detectedObjects.current.size === 0)
IdleShouldAnnounce(now, last, size) ==
    /\ now - last > 3000
    /\ size = 0

\* the callback of setInterval(..., 3000)
idleAnnounce ==
    /\ isActive
    /\ idleDue # NoTimer
    /\ clock >= idleDue
    /\ idleDue' = clock + 3000
    /\ IF IdleShouldAnnounce(clock, lastAnnouncementTime,
                             Cardinality(DOMAIN detectedObjects))
       THEN /\ lastAnnouncementTime' = clock     \* Tts.speak('Path is clear, continue forward')
            /\ prevAnnouncementTime' = lastAnnouncementTime
            /\ lastAlert' = NoAlert
            /\ lastOp' = "idleSpeak"
       ELSE /\ UNCHANGED << lastAnnouncementTime, prevAnnouncementTime, lastAlert >>
            /\ lastOp' = "idleSkip"
    /\ cycleInput' = << >>
    /\ cycleAlerts' = << >>
    /\ cycleThrew' = FALSE
    /\ UNCHANGED << clock, isActive, detectedObjects, lastFrameTime, frameCount >>
    /\ UNCHANGED << pureVars, ttsVars, slowVars, navVars, prodVars, gestVars >>

\* one run of the runAtTargetFps(2, ...) body over the detections of a frame
frameProcessor(dets) ==
    /\ isActive                               \* the camera delivers frames
    /\ clock - lastFrameTime >= 500           \* runAtTargetFps(2, ...)
    /\ frameCount < MaxFrames
    /\ frameCount' = frameCount + 1
    /\ lastFrameTime' = clock
    /\ cycleInput' = dets
    /\ lastOp' = "cycle"
    /\ IF isActive /\ Len(dets) > 0
       THEN \E st \in { ProcessDetections(
                            [objs |-> detectedObjects, last |-> lastAnnouncementTime,
                             prev |-> prevAnnouncementTime, alerts |-> << >>],
                            dets, 1, clock) } :
                /\ detectedObjects' = CleanUp(st.objs, clock)
                /\ cycleThrew' = CleanUpThrows(st.objs)
                /\ lastAnnouncementTime' = st.last
                /\ prevAnnouncementTime' = st.prev
                /\ cycleAlerts' = st.alerts
                /\ lastAlert' =
                      IF st.alerts = << >> THEN lastAlert
                      ELSE LET a == st.alerts[Len(st.alerts)]
                           IN  [key |-> << a.label, a.position >>,
                                tier |-> tierOf(a.distance)]
       ELSE /\ cycleAlerts' = << >>
            /\ cycleThrew' = FALSE
            /\ UNCHANGED << detectedObjects, lastAnnouncementTime,
                            prevAnnouncementTime, lastAlert >>
    /\ UNCHANGED << clock, isActive, idleDue >>
    /\ UNCHANGED << pureVars, ttsVars, slowVars, navVars, prodVars, gestVars >>

FrameCycle == \E dets \in DetectionLists : frameProcessor(dets)

FastNext ==
    \/ Advance
    \/ startNavigation
    \/ stopNavigation
    \/ idleAnnounce
    \/ FrameCycle

SpecFast == FastInit /\ [][FastNext]_vars

----------------------------------------------------------------------------
(* The pure functions, applied to arguments drawn at the start *)

PureInit ==
    /\ pIn \in { [label |-> l, box |-> [x |-> 425, width |-> 150, height |-> h]] :
                    l \in PureLabels, h \in PureHeights }
    /\ pOut = NoOutput
    /\ clock = StartClock
    /\ FastConstructed
    /\ TtsConstructed
    /\ SlowConstructed
    /\ NavConstructed
    /\ AppConstructed
    /\ ProdConstructed
    /\ lastOp = "init"

Evaluate ==
    /\ ~pOut.done
    /\ pOut' = LET distance == estimateDistance(pIn.box, pIn.label)
                   position == getPosition(pIn.box, FrameWidth)
               IN  [done |-> TRUE, distance |-> distance, position |-> position,
                    direction |-> getDirectionAdvice(position, distance),
                    pulses |-> distanceFeedback(distance)]
    /\ lastOp' = "evaluate"
    /\ UNCHANGED << clock, pIn, fastVars, ttsVars, slowVars, navVars, prodVars, gestVars >>

PureNext == Evaluate

SpecPure == PureInit /\ [][PureNext]_vars

C37_VeryCloseNeverTaken ==
    pOut.done =>
        /\ Len(pOut.pulses) < 3
        /\ pOut.distance < 1000 =>
              pOut.pulses = << Pulse(0, "impactHeavy"), Pulse(200, "impactHeavy") >>

\* a box so high that the raw distance is under 0.5 m was evaluated: the
\* estimate is 0.5 m and the feedback is the double pulse
C37_Witness ==
    /\ pOut.done
    /\ rawDistance(pIn.box.height, pIn.label) < 500
    /\ pOut.distance = 500
    /\ pOut.pulses = << Pulse(0, "impactHeavy"), Pulse(200, "impactHeavy") >>

----------------------------------------------------------------------------
(* getPosition and getDirectionAdvice, applied to arguments drawn at the start *)

\* bbox.x for boxes left of, on and right of both boundaries of a frame 1000
\* and of a frame 200 wide, outside the frame included
AdviceXs == {0 - 200, 0 - 10, 0 - 9, 0 - 8, 0, 58, 59, 60, 254, 255, 256, 425,
             594, 595, 596, 900, 1100}

AdviceWidths == {150, 151}

AdviceFrameWidths == {200, 1000}

\* distances in millimetres around 0.5 m, 1.0 m, 1.5 m and 3.0 m
AdviceDistances == {0, 499, 500, 999, 1000, 1200, 1499, 1500, 1501, 2999, 3000,
                    3001, 20000, 25000}

AdviceInit ==
    /\ pIn \in { [label |-> "none", box |-> [x |-> x, width |-> w, height |-> 300],
                  frameWidth |-> fw, distance |-> d] :
                    x \in AdviceXs, w \in AdviceWidths, fw \in AdviceFrameWidths,
                    d \in AdviceDistances }
    /\ pOut = NoOutput
    /\ clock = StartClock
    /\ FastConstructed
    /\ TtsConstructed
    /\ SlowConstructed
    /\ NavConstructed
    /\ AppConstructed
    /\ ProdConstructed
    /\ lastOp = "init"

\* position = getPosition(box, frame.width); direction = getDirectionAdvice(position, distance)
Advise ==
    /\ ~pOut.done
    /\ pOut' = LET position == getPosition(pIn.box, pIn.frameWidth)
               IN  [done |-> TRUE, distance |-> pIn.distance, position |-> position,
                    direction |-> getDirectionAdvice(position, pIn.distance)]
    /\ lastOp' = "advise"
    /\ UNCHANGED << clock, pIn, fastVars, ttsVars, slowVars, navVars, prodVars, gestVars >>

AdviceNext == Advise

SpecAdvice == AdviceInit /\ [][AdviceNext]_vars

CriticalDirective(position) ==
    IF position = "center" THEN "STOP! Obstacle ahead!"
    ELSE IF position = "left" THEN "Move right to avoid"
    ELSE "Move left to avoid"

WarningDirective(position) ==
    IF position = "center" THEN "Slow down, obstacle ahead"
    ELSE IF position = "left" THEN "Object on your left"
    ELSE "Object on your right"

\* the table with its critical tier below criticalBelow and its warning tier
\* below 3.0 m
TableDirective(criticalBelow, position, distance) ==
    IF distance < criticalBelow THEN CriticalDirective(position)
    ELSE IF distance < 3000 THEN WarningDirective(position)
    ELSE "Path is clear"

C19_PositionSplit ==
    pOut.done =>
        LET twiceCenter == 2 * pIn.box.x + pIn.box.width
            below == 100 * twiceCenter < 66 * pIn.frameWidth
            above == 100 * twiceCenter > 134 * pIn.frameWidth
        IN  /\ pOut.position \in {"left", "center", "right"}
            /\ pOut.position = "left" <=> below
            /\ pOut.position = "right" <=> above
            /\ pOut.position = "center" <=> (~below /\ ~above)

\* a box whose centre is exactly 0.33 of the frame width was placed in the centre
C19_Witness ==
    /\ pOut.done
    /\ 100 * (2 * pIn.box.x + pIn.box.width) = 66 * pIn.frameWidth
    /\ pOut.position = "center"

----------------------------------------------------------------------------
(* Properties of the fast loop *)

detDistance(d) == estimateDistance(d.box, d.label)
detPosition(d) == getPosition(d.box, FrameWidth)
detKey(d) == << d.label, detPosition(d) >>
detTier(d) == tierOf(detDistance(d))
\* the second conjunct of the announce condition: the detection is worth a phrase
detEligible(d) == detDistance(d) < 3000 \/ detPosition(d) = "center"

\* C2: one run of the frame-processor body emits at most one obstacle alert,
\* whatever the detections and the throttle state it starts from.
C2_AtMostOneAlertPerCycle == Len(cycleAlerts) <= 1

\* a cycle with two detections that both qualify for a phrase emitted exactly one
C2_Witness ==
    /\ lastOp = "cycle"
    /\ Len(cycleInput) = 2
    /\ detEligible(cycleInput[1]) /\ detEligible(cycleInput[2])
    /\ Len(cycleAlerts) = 1

\* C3: a critical detection for key K inside the 2 s window that a warning for
\* the same key K opened is emitted by the cycle that sees it.
C3_EscalationOverride ==
    [][ ( /\ lastOp' = "cycle"
          /\ lastAlert.tier = "warning"
          /\ clock' - lastAnnouncementTime <= 2000
          /\ \E i \in 1..Len(cycleInput') :
                /\ detKey(cycleInput'[i]) = lastAlert.key
                /\ detTier(cycleInput'[i]) = "critical" )
        => \E j \in 1..Len(cycleAlerts') :
                /\ << cycleAlerts'[j].label, cycleAlerts'[j].position >> = lastAlert.key
                /\ tierOf(cycleAlerts'[j].distance) = "critical" ]_vars

\* C4: an alert emitted by a cycle is for a detection of the highest severity
\* tier among the detections of that cycle, whatever their order.
C4_HighestTierWins ==
    lastOp = "cycle" =>
        \A j \in 1..Len(cycleAlerts) : \A i \in 1..Len(cycleInput) :
            tierRank(tierOf(cycleAlerts[j].distance)) >= tierRank(detTier(cycleInput[i]))

\* C5: of two detections of the same tier at different distances, the alert of
\* the cycle is for the closer one, whatever their order.
C5_CloserWins ==
    ( /\ lastOp = "cycle"
      /\ Len(cycleInput) = 2
      /\ detTier(cycleInput[1]) = detTier(cycleInput[2])
      /\ detDistance(cycleInput[1]) # detDistance(cycleInput[2]) )
    => \A j \in 1..Len(cycleAlerts) :
          cycleAlerts[j].distance = Min(detDistance(cycleInput[1]), detDistance(cycleInput[2]))

\* C6: two consecutive throttled announcements (obstacle alert or idle
\* announcement) are more than 2000 ms apart.
C6_GlobalGap ==
    prevAnnouncementTime # 0 => lastAnnouncementTime - prevAnnouncementTime > 2000

\* an obstacle alert was emitted after an earlier throttled announcement
C6_Witness ==
    /\ prevAnnouncementTime # 0
    /\ lastOp = "cycle"
    /\ Len(cycleAlerts) = 1
    /\ cycleAlerts[1].time = lastAnnouncementTime

\* C9: a phrase with 'Path is clear' is spoken only while nothing is tracked, and
\* no obstacle alert carries the 'Path is clear' directive.
C9_PathClearOnlyWhenIdle ==
    /\ lastOp = "idleSpeak" => DOMAIN detectedObjects = {}
    /\ lastOp = "cycle" =>
          \A j \in 1..Len(cycleAlerts) : cycleAlerts[j].direction # "Path is clear"

\* C10: while the session is active, a cycle leaves no key in detectedObjects
\* that was last sighted more than 5 s ago, also when it got no detections.
C10_StaleKeysEvicted ==
    (isActive /\ lastOp = "cycle") =>
        \A k \in DOMAIN detectedObjects : clock - detectedObjects[k].timestamp <= 5000

\* C11: when a session starts, detectedObjects is empty and lastAnnouncementTime
\* is back to 0, so that its first alert is not held back by an announcement of
\* the session before it.
C11_NoSessionLeak ==
    lastOp = "start" => (detectedObjects = EmptyMap /\ lastAnnouncementTime = 0)

\* a phrase of the form '<label> <place>, <n.n> meters. <directive>'
Phrase(label, place, tenths, directive) ==
    label \o " " \o place \o ", " \o ToString(tenths \div 10) \o "."
          \o ToString(tenths % 10) \o " meters. " \o directive

\* the tenths that are a rounding of a distance to one decimal
OneDecimalOf(distance) ==
    { t \in 0..200 : 100 * t - 50 <= distance /\ distance <= 100 * t + 50 }

PositionPhrase(position) ==
    IF position = "center" THEN "ahead"
    ELSE IF position = "left" THEN "on your left"
    ELSE "on your right"

DirectiveTier(direction) ==
    IF direction \in { CriticalDirective(p) : p \in {"left", "center", "right"} }
    THEN "critical"
    ELSE IF direction \in { WarningDirective(p) : p \in {"left", "center", "right"} }
    THEN "warning"
    ELSE IF direction = "Path is clear" THEN "safe"
    ELSE "unknown"

HapticTier(haptic) ==
    IF haptic = "notificationError" THEN "critical"
    ELSE IF haptic = "notificationWarning" THEN "warning"
    ELSE IF haptic = "none" THEN "safe"
    ELSE "other"

\* C21: the haptic of every alert is the one of the tier of its directive
\* (critical: notificationError, warning: notificationWarning, 'Path is clear':
\* none); so it is for every distance and position the two branches can be given.
C21_HapticMatchesDirective ==
    /\ \A j \in 1..Len(cycleAlerts) :
          HapticTier(cycleAlerts[j].haptic) = DirectiveTier(cycleAlerts[j].direction)
    /\ \A d \in AdviceDistances : \A p \in {"left", "center", "right"} :
          HapticTier(hapticOf(d)) = DirectiveTier(getDirectionAdvice(p, d))

\* a critical alert went out with notificationError
C21_Witness ==
    /\ lastOp = "cycle"
    /\ Len(cycleAlerts) = 1
    /\ cycleAlerts[1].direction = "STOP! Obstacle ahead!"
    /\ cycleAlerts[1].haptic = "notificationError"

----------------------------------------------------------------------------
(* The frame processor on what a detector hands over unfiltered *)

\* a person in the centre at 2.0 m; a chair of height 0, a bus of negative
\* height and a bicycle of width 0; a car on the left at 1.76 m that the
\* detector is only 30 % sure of
RawDetections ==
    { Detection("person", 425, 850),
      RawDetection("chair", 90, 425, 150, 0),
      RawDetection("bus", 90, 425, 150, 0 - 300),
      RawDetection("bicycle", 90, 100, 0, 300),
      RawDetection("car", 30, 100, 150, 850) }

RawDetectionLists == UNION { [1..n -> RawDetections] : n \in 0..MaxDetections }

RawFrameCycle == \E dets \in RawDetectionLists : frameProcessor(dets)

RawNext ==
    \/ Advance
    \/ startNavigation
    \/ stopNavigation
    \/ idleAnnounce
    \/ RawFrameCycle

SpecRaw == FastInit /\ [][RawNext]_vars

ValidGeometry(d) == d.box.width > 0 /\ d.box.height > 0

\* the cycle that has just run neither tracked detection d nor alerted for it
Dropped(d) ==
    /\ detKey(d) \notin DOMAIN detectedObjects
    /\ \A j \in 1..Len(cycleAlerts) :
          << cycleAlerts[j].label, cycleAlerts[j].position >> # detKey(d)

\* C16: a detection whose box has a non-positive height or width is dropped by
\* the cycle: no alert for it, no entry for it in detectedObjects.
C16_InvalidGeometryDropped ==
    lastOp = "cycle" =>
        \A i \in 1..Len(cycleInput) :
            ~ValidGeometry(cycleInput[i]) => Dropped(cycleInput[i])

\* C17: a detection with a confidence below 0.5 gives no alert and no entry in
\* detectedObjects.
C17_LowConfidenceDropped ==
    lastOp = "cycle" =>
        \A i \in 1..Len(cycleInput) :
            cycleInput[i].confidence < 50 => Dropped(cycleInput[i])

----------------------------------------------------------------------------
(* TTSService *)

cooldownMs == 2000

\* `text === this.lastAnnouncement && now - this.lastAnnouncementTime < this.cooldownMs`
IsDuplicate(text, now) ==
    /\ text = ttsLastAnnouncement
    /\ now - ttsLastAnnouncementTime < cooldownMs

\* the cooldown taken to apply to urgent calls too
Suppressed_ignoresUrgent(text, urgent, now) == IsDuplicate(text, now)

\* `if (!urgent) { ... return; }`: only a non-urgent call is checked for a duplicate
Suppressed(text, urgent, now) == ~urgent /\ IsDuplicate(text, now)

\* mutant of skipDuplicate: the skipped attempt restarts the cooldown
skipDuplicate_restartsCooldown ==
    /\ ttsCmds' = << >>
    /\ ttsLastAnnouncementTime' = clock
    /\ UNCHANGED << ttsLastAnnouncement, ttsSpokenAt, ttsRepeatGap >>

\* the early `return` of speak: nothing is given to the engine and the tracking
\* fields are not written
skipDuplicate ==
    /\ ttsCmds' = << >>
    /\ UNCHANGED << ttsLastAnnouncement, ttsLastAnnouncementTime, ttsSpokenAt,
                    ttsRepeatGap >>

\* TTSService.speak(text, urgent = false)
speak(text, urgent) ==
    /\ lastOp' = "speak"
    /\ ttsUrgentUsed' = (ttsUrgentUsed \/ urgent)
    /\ ttsCall' = [text |-> text, urgent |-> urgent]
    /\ IF text = "" \/ Suppressed(text, urgent, clock)
       THEN \* `if (!text) return`, or the duplicate is skipped
            skipDuplicate
       ELSE /\ ttsCmds' = (IF urgent THEN << "stop" >> ELSE << >>) \o << "speak" >>
            /\ ttsLastAnnouncement' = text
            /\ ttsLastAnnouncementTime' = clock
            /\ ttsRepeatGap' = IF ttsSpokenAt[text] = 0 THEN NoGap
                               ELSE clock - ttsSpokenAt[text]
            /\ ttsSpokenAt' = [ttsSpokenAt EXCEPT ![text] = clock]
    /\ UNCHANGED << clock, pureVars, fastVars, slowVars, navVars, prodVars, gestVars >>

TtsSpeak == \E text \in TtsTexts \cup {""} : \E urgent \in BOOLEAN : speak(text, urgent)

\* time passes
TtsAdvance ==
    /\ clock + TickMs <= StartClock + MaxElapsed
    /\ clock' = clock + TickMs
    /\ lastOp' = "advance"
    /\ ttsCmds' = << >>
    /\ UNCHANGED << ttsLastAnnouncement, ttsLastAnnouncementTime, ttsSpokenAt,
                    ttsRepeatGap, ttsUrgentUsed, ttsCall >>
    /\ UNCHANGED << pureVars, fastVars, slowVars, navVars, prodVars, gestVars >>

TtsInit ==
    /\ clock = StartClock
    /\ pIn = NoInput
    /\ pOut = NoOutput
    /\ FastConstructed
    /\ TtsConstructed
    /\ SlowConstructed
    /\ NavConstructed
    /\ AppConstructed
    /\ ProdConstructed
    /\ lastOp = "init"

TtsNext == TtsSpeak \/ TtsAdvance

SpecTTS == TtsInit /\ [][TtsNext]_vars

\* C7: as long as every speak call is non-urgent, a text is given to the engine
\* at most once in any 2000 ms, also with other texts spoken in between.
C7_PerTextSuppression ==
    ~ttsUrgentUsed => (ttsRepeatGap = NoGap \/ ttsRepeatGap >= cooldownMs)

\* C22: an urgent speak of a non-empty text gives the engine a stop and then the
\* speak, whatever was spoken before and however recently; a non-urgent speak
\* gives the engine no stop.
C22_UrgentStopsThenSpeaks ==
    lastOp = "speak" =>
        /\ (ttsCall.urgent /\ ttsCall.text # "") => ttsCmds = << "stop", "speak" >>
        /\ ~ttsCall.urgent => \A i \in 1..Len(ttsCmds) : ttsCmds[i] # "stop"

\* an urgent speak repeated its own text inside the cooldown and went through
C22_Witness ==
    /\ lastOp = "speak"
    /\ ttsCall.urgent
    /\ ttsCall.text # ""
    /\ ttsRepeatGap # NoGap
    /\ ttsRepeatGap < cooldownMs
    /\ ttsCmds = << "stop", "speak" >>

\* C33: a speak call that is suppressed (non-urgent, the text of the last
\* announcement, less than 2000 ms after it) gives the engine nothing and leaves
\* lastAnnouncement and lastAnnouncementTime as they were; and a non-urgent
\* speak of a text made 2000 ms or more after that text was last given to the
\* engine is given to the engine, whatever was attempted in between.
C33_SuppressedChangesNothing ==
    [][ (lastOp' = "speak" /\ ttsCall'.text # "") =>
           /\ Suppressed(ttsCall'.text, ttsCall'.urgent, clock) =>
                 /\ ttsCmds' = << >>
                 /\ UNCHANGED << ttsLastAnnouncement, ttsLastAnnouncementTime >>
           /\ clock - ttsSpokenAt[ttsCall'.text] >= cooldownMs =>
                 /\ ttsCmds'[Len(ttsCmds')] = "speak"
                 /\ ttsLastAnnouncement' = ttsCall'.text
                 /\ ttsLastAnnouncementTime' = clock ]_vars

\* a non-urgent repeat of the last announcement, made after that announcement
\* and inside its cooldown, was skipped
C33_Witness ==
    /\ lastOp = "speak"
    /\ ~ttsCall.urgent
    /\ ttsCall.text # ""
    /\ ttsCall.text = ttsLastAnnouncement
    /\ ttsCmds = << >>
    /\ clock > ttsLastAnnouncementTime
    /\ clock - ttsLastAnnouncementTime < cooldownMs

----------------------------------------------------------------------------
(* Slow loop: the timer driven scanner of App.tsx *)

MaxInFlight == 2        \* scans that can wait for takePhoto at the same time

\* what analyzeScene resolves to.  cameraRef.current is set whenever the start
\* button is rendered, so the `!cameraRef.current` exit is not taken.  The
\* object, position and direction parts of an obstacle message are left out:
\* scanForObstacles only looks for 'DANGER', 'WARNING' and 'detected' in it.
analyzeScene(photoTaken, obstacleDetected, distance) ==
    IF ~photoTaken THEN "Scanning..."
    ELSE IF obstacleDetected THEN
        (IF distance < 2 THEN "DANGER! "
         ELSE IF distance < 4 THEN "WARNING! "
         ELSE "") \o "obstacle detected"
    ELSE "Path is clear, continue forward"

\* every message analyzeScene can resolve to; distance is 1..5
SceneMessages ==
    { analyzeScene(p, o, d) : p \in BOOLEAN, o \in BOOLEAN, d \in 1..5 }

\* the haptic scanForObstacles picks from the message
scanHaptic(message) ==
    IF message \in {"DANGER! obstacle detected"} THEN "notificationError"
    ELSE IF message \in {"WARNING! obstacle detected"} THEN "notificationWarning"
    ELSE IF message \in {"obstacle detected"} THEN "impactLight"
    ELSE "none"

IsPathClear(message) == message = "Path is clear, continue forward"

\* scanForObstacles up to its await: analyzeScene is called and takePhoto started
BeginScan ==
    /\ sInFlight < MaxInFlight
    /\ sInFlight' = sInFlight + 1
    /\ sSpoken' = ""
    /\ sHaptic' = "none"
    /\ sScanGap' = IF sLastScanTime = 0 THEN NoGap ELSE clock - sLastScanTime
    /\ sLastScanTime' = clock
    /\ UNCHANGED << sInstruction, sLastClearTime, sClearGap >>

\* startNavigation
sStartNavigation ==
    /\ ~sIsActive
    /\ sIsActive' = TRUE
    /\ sTimeouts' = sTimeouts \cup {clock + 1000}   \* setTimeout(() => scanForObstacles(), 1000)
    /\ scanInterval' = clock + 2000                 \* setInterval(..., 2000)
    /\ sSpoken' = "Navigation started"
    /\ sHaptic' = "impactMedium"
    /\ lastOp' = "start"
    /\ sLastScanTime' = 0
    /\ sScanGap' = NoGap
    /\ UNCHANGED << sInFlight, sInstruction, sLastClearTime, sClearGap >>
    /\ UNCHANGED << clock, pureVars, fastVars, ttsVars, navVars, prodVars, gestVars >>

\* stopNavigation
sStopNavigation ==
    /\ sIsActive
    /\ sIsActive' = FALSE
    /\ sInstruction' = "Ready to navigate"
    /\ scanInterval' = NoTimer                      \* clearInterval
    /\ sSpoken' = "Navigation stopped"
    /\ sHaptic' = "impactHeavy"
    /\ lastOp' = "stop"
    /\ UNCHANGED << sTimeouts, sInFlight, sLastClearTime, sClearGap, sLastScanTime,
                    sScanGap >>
    /\ UNCHANGED << clock, pureVars, fastVars, ttsVars, navVars, prodVars, gestVars >>

\* the callback of setTimeout(..., 1000)
sTimeoutFires ==
    /\ \E due \in sTimeouts :
          /\ clock >= due
          /\ sTimeouts' = sTimeouts \ {due}
    /\ BeginScan
    /\ lastOp' = "timeout"
    /\ UNCHANGED << sIsActive, scanInterval >>
    /\ UNCHANGED << clock, pureVars, fastVars, ttsVars, navVars, prodVars, gestVars >>

\* the callback of setInterval(..., 2000)
sIntervalFires ==
    /\ scanInterval # NoTimer
    /\ clock >= scanInterval
    /\ scanInterval' = clock + 2000
    /\ BeginScan
    /\ lastOp' = "interval"
    /\ UNCHANGED << sIsActive, sTimeouts >>
    /\ UNCHANGED << clock, pureVars, fastVars, ttsVars, navVars, prodVars, gestVars >>

\* scanForObstacles after its await: the message is shown, spoken and felt
scanForObstacles(message) ==
    /\ sInFlight > 0
    /\ sInFlight' = sInFlight - 1
    /\ sInstruction' = message
    /\ sSpoken' = message
    /\ sHaptic' = scanHaptic(message)
    /\ IF IsPathClear(message)
       THEN /\ sClearGap' = IF sLastClearTime = 0 THEN NoGap ELSE clock - sLastClearTime
            /\ sLastClearTime' = clock
       ELSE UNCHANGED << sLastClearTime, sClearGap >>
    /\ lastOp' = "scan"
    /\ UNCHANGED << sIsActive, scanInterval, sTimeouts, sLastScanTime, sScanGap >>
    /\ UNCHANGED << clock, pureVars, fastVars, ttsVars, navVars, prodVars, gestVars >>

ScanCompletes == \E message \in SceneMessages : scanForObstacles(message)

\* time passes; a timer that is due runs before the clock moves on
SlowAdvance ==
    /\ clock + TickMs <= StartClock + MaxElapsed
    /\ \A due \in sTimeouts : clock < due
    /\ (scanInterval = NoTimer \/ clock < scanInterval)
    /\ clock' = clock + TickMs
    /\ sSpoken' = ""
    /\ sHaptic' = "none"
    /\ lastOp' = "advance"
    /\ UNCHANGED << sIsActive, scanInterval, sTimeouts, sInFlight, sInstruction,
                    sLastClearTime, sClearGap, sLastScanTime, sScanGap >>
    /\ UNCHANGED << pureVars, fastVars, ttsVars, navVars, prodVars, gestVars >>

SlowInit ==
    /\ clock = StartClock
    /\ pIn = NoInput
    /\ pOut = NoOutput
    /\ FastConstructed
    /\ TtsConstructed
    /\ SlowConstructed
    /\ NavConstructed
    /\ AppConstructed
    /\ ProdConstructed
    /\ lastOp = "init"

SlowNext ==
    \/ sStartNavigation
    \/ sStopNavigation
    \/ sTimeoutFires
    \/ sIntervalFires
    \/ ScanCompletes
    \/ SlowAdvance

SpecSlow == SlowInit /\ [][SlowNext]_vars

\* C8: with no obstacle in sight 'path is clear' is spoken at most once per 3 s
\* and no cycle throws; in the fast loop (idle timer, empty cycles) and in the
\* slow loop (the scanner speaks the result of every scan).
C8_ClearOncePerIdleInterval ==
    /\ (lastOp = "idleSpeak" /\ prevAnnouncementTime # 0)
          => lastAnnouncementTime - prevAnnouncementTime >= 3000
    /\ (lastOp = "cycle" /\ cycleInput = << >>) => ~cycleThrew
    /\ sClearGap # NoGap => sClearGap >= 3000

\* C12: at every moment at most one scan started by the sampling timers is
\* waiting for its detection; a scan does not start while another is in flight.
C12_NoOverlappingCycles == sInFlight <= 1

\* the haptics scanForObstacles can trigger
ScanHaptics == {"notificationError", "notificationWarning", "impactLight"}

\* C13: between stopNavigation and the next startNavigation no scan result is
\* spoken and no detection haptic is triggered, also not by a scan that was in
\* flight at the stop or by the one-shot scan scheduled 1 s after the start.
C13_StopCancelsSession ==
    ~sIsActive => (sSpoken \notin SceneMessages /\ sHaptic \notin ScanHaptics)

\* C24: two consecutive scans of one session begin at least 2000 ms apart,
\* the first scans after startNavigation included.
C24_ScansTwoSecondsApart ==
    (sIsActive /\ sScanGap # NoGap) => sScanGap >= 2000

----------------------------------------------------------------------------
(* NavigationScreen.js: the detection loop against APIService (part_007) *)

NavMaxElapsed == 8000   \* the clock of this screen stops this long after StartClock

\* this.timeout of APIService: axios gives up after 5 s
timeout == 5000

\* how one call of detectObjects can end
Outcome(kind, category, distance) ==
    [kind |-> kind, category |-> category, distance |-> distance]

\* `detectObjects` is not a function: the call itself throws a TypeError
Throws == Outcome("throws", "", 0)

\* the responses with an `urgent` entry: its category and its distance in mm
UrgentResults ==
    { Outcome("urgent", c, d) : c \in {"critical", "warning", "info"},
                                d \in {500, 1500, 2500} }

\* what the awaited call can resolve to before axios gives up: null (the catch
\* of APIService.detectObjects), a response without `urgent`, one with it
AsyncOutcomes == { Outcome("null", "", 0), Outcome("result", "", 0) } \cup UrgentResults

\* what it resolves to once axios has given up: the catch returns null
TimedOut == Outcome("timeout", "", 0)

\* control reaches the catch of performDetection: the call threw, or `result`
\* is null and reading result.urgent threw
DetectionFailed(outcome) == outcome.kind \in {"throws", "null", "timeout"}

\* a loop that takes everything the call resolves to for a result to announce
Announces_anyResult(outcome) == outcome.kind # "throws"

\* `if (result.urgent)` is reached and holds
Announces(outcome) == outcome.kind = "urgent"

\* the haptic branch of performDetection
navHaptic(category, distance) ==
    IF category = "critical" \/ distance < 1000 THEN "notificationError"
    ELSE IF category = "warning" \/ distance < 2000 THEN "notificationWarning"
    ELSE "impactLight"

\* performDetection from the point where the call has ended with outcome
performDetection(outcome) ==
    /\ nOutcome' = outcome.kind
    /\ nFailures' = IF DetectionFailed(outcome) THEN nFailures + 1 ELSE 0
    /\ IF Announces(outcome)
       THEN LET instruction == Instruction("person", "center", outcome.distance)
            IN  /\ nLastInstruction' = instruction
                /\ nCmds' = << SpeakCmd(instruction) >>
                /\ nHaptic' = navHaptic(outcome.category, outcome.distance)
       ELSE /\ nCmds' = << >>
            /\ nHaptic' = "none"
            /\ UNCHANGED nLastInstruction

\* the callback of setInterval(..., 2000) and performDetection up to its await
nIntervalFires ==
    /\ clock >= nInterval
    /\ nInterval' = clock + 2000
    /\ lastOp' = "navInterval"
    /\ IF nIsPaused
       THEN /\ nCmds' = << >>
            /\ nHaptic' = "none"
            /\ nOutcome' = "none"
            /\ UNCHANGED << nPending, nLastInstruction, nFailures >>
       ELSE IF ~nDetectBound
       THEN /\ performDetection(Throws)
            /\ UNCHANGED nPending
       ELSE /\ nPending' = nPending \cup {clock}
            /\ nCmds' = << >>
            /\ nHaptic' = "none"
            /\ nOutcome' = "none"
            /\ UNCHANGED << nLastInstruction, nFailures >>
    /\ UNCHANGED << nIsPaused, nDetectBound, tapVars, gestVars >>
    /\ UNCHANGED << clock, pureVars, fastVars, ttsVars, slowVars, prodVars, gestVars >>

\* performDetection after its await: the call started at `started` has ended
nDetectSettles(started, outcome) ==
    /\ started \in nPending
    /\ IF clock - started >= timeout THEN outcome = TimedOut ELSE outcome \in AsyncOutcomes
    /\ nPending' = nPending \ {started}
    /\ performDetection(outcome)
    /\ lastOp' = "navSettle"
    /\ UNCHANGED << nIsPaused, nInterval, nDetectBound, tapVars, gestVars >>
    /\ UNCHANGED << clock, pureVars, fastVars, ttsVars, slowVars, prodVars, gestVars >>

DetectSettles ==
    \E started \in nPending : \E outcome \in AsyncOutcomes \cup {TimedOut} :
        nDetectSettles(started, outcome)

NavMaxTaps == 3         \* taps made on the screen in one run

\* the window of the multi-tap detection
tapWindowMs == 300

\* handleTap: the Pressable calls the handleTap of the latest render, and the
\* timer callback made here keeps the lastInstruction and isPaused of that render
handleTap ==
    /\ nTapsSoFar < NavMaxTaps
    /\ nTapsSoFar' = nTapsSoFar + 1
    /\ nBurst' = nBurst + 1
    /\ nTapCount' = nTapCount + 1
    /\ nTapTimer' = clock + tapWindowMs       \* clearTimeout, then setTimeout(..., 300)
    /\ nTapClosure' = [lastInstruction |-> nLastInstruction, isPaused |-> nIsPaused]
    /\ nCmds' = << >>
    /\ nHaptic' = "impactLight"
    /\ nOutcome' = "none"
    /\ lastOp' = "tap"
    /\ UNCHANGED << nIsPaused, nInterval, nPending, nLastInstruction, nFailures,
                    nDetectBound, nDecision >>
    /\ UNCHANGED << clock, pureVars, fastVars, ttsVars, slowVars, prodVars, gestVars >>

\* `if (taps === 1) ... else if (taps === 2) ...`
tapDecision(taps) ==
    IF taps = 1 THEN "repeat" ELSE IF taps = 2 THEN "toggle" ELSE "none"

\* the double tap: the taps === 2 branch of the timer callback, then the effect
\* on [isPaused], which React runs in the immediates of the same call: its
\* clean-up and its next run
nTogglePause ==
    /\ nIsPaused' = ~nTapClosure.isPaused
    /\ nCmds' = << SpeakCmd(FixedPhrase(IF ~nTapClosure.isPaused
                                        THEN "Navigation paused"
                                        ELSE "Navigation resumed")),
                   StopCmd,
                   SpeakCmd(FixedPhrase("Navigation started")) >>
    /\ nInterval' = clock + 2000

\* the callback of the tap timer
nTapTimerFires ==
    /\ nTapTimer # NoTimer
    /\ clock >= nTapTimer
    /\ nTapTimer' = NoTimer
    /\ nTapCount' = 0
    /\ nBurst' = 0
    /\ nDecision' = [taps |-> nTapCount, kind |-> tapDecision(nTapCount),
                      burst |-> nBurst, wasPaused |-> nIsPaused]
    /\ IF tapDecision(nTapCount) = "repeat"
       THEN /\ nCmds' = << SpeakCmd(nTapClosure.lastInstruction) >>
            /\ UNCHANGED << nIsPaused, nInterval >>
       ELSE IF tapDecision(nTapCount) = "toggle"
       THEN nTogglePause
       ELSE /\ nCmds' = << >>
            /\ UNCHANGED << nIsPaused, nInterval >>
    /\ nHaptic' = "none"
    /\ nOutcome' = "none"
    /\ lastOp' = "tapTimer"
    /\ UNCHANGED << nPending, nLastInstruction, nFailures, nDetectBound, nTapClosure,
                    nTapsSoFar >>
    /\ UNCHANGED << clock, pureVars, fastVars, ttsVars, slowVars, prodVars, gestVars >>

\* the times at which something is due after `clock`
NavDueTimes ==
    {clock + TickMs, nInterval}
        \cup (IF nTapTimer = NoTimer THEN {} ELSE {nTapTimer})
        \cup { started + timeout : started \in nPending }

\* time passes, up to the next tick or to what is due before it; a timer or a
\* request time-out that is due runs first
NavAdvance ==
    /\ clock < nInterval
    /\ nTapTimer = NoTimer \/ clock < nTapTimer
    /\ \A started \in nPending : clock - started < timeout
    /\ \E next \in NavDueTimes :
          /\ \A t \in NavDueTimes : next <= t
          /\ next <= StartClock + NavMaxElapsed
          /\ clock' = next
    /\ nCmds' = << >>
    /\ nHaptic' = "none"
    /\ nOutcome' = "none"
    /\ lastOp' = "advance"
    /\ UNCHANGED << nIsPaused, nInterval, nPending, nLastInstruction, nFailures,
                    nDetectBound, tapVars >>
    /\ UNCHANGED << pureVars, fastVars, ttsVars, slowVars, prodVars, gestVars >>

\* '../services/APIService' as part_007 has it exports the service object only,
\* so that the imported name is undefined; TRUE stands for a module that also
\* exports the function
NavInit ==
    /\ clock = StartClock
    /\ pIn = NoInput
    /\ pOut = NoOutput
    /\ FastConstructed
    /\ TtsConstructed
    /\ SlowConstructed
    /\ nIsPaused = FALSE
    /\ nInterval = StartClock + 2000
    /\ nPending = {}
    /\ nLastInstruction = FixedPhrase("Navigation started")
    /\ nCmds = << SpeakCmd(FixedPhrase("Navigation started")) >>
    /\ nHaptic = "none"
    /\ nOutcome = "none"
    /\ nFailures = 0
    /\ nDetectBound \in BOOLEAN
    /\ TapConstructed
    /\ ProdConstructed
    /\ AppConstructed
    /\ lastOp = "init"

NavNext ==
    \/ nIntervalFires
    \/ DetectSettles
    \/ handleTap
    \/ nTapTimerFires
    \/ NavAdvance

SpecNav == NavInit /\ [][NavNext]_vars

\* C14: a detection cycle that fails (the call throws, times out, or the
\* service returns null) speaks nothing, triggers no haptic, leaves
\* lastInstruction as it was and leaves the detection interval armed.
C14_FailedCycleIsSoft ==
    [][ nOutcome' \in {"throws", "null", "timeout"}
        => /\ nCmds' = << >>
           /\ nHaptic' = "none"
           /\ nLastInstruction' = nLastInstruction
           /\ nInterval' # NoTimer
           /\ nInterval' <= clock' + 2000 ]_vars

\* a request timed out after an instruction had been announced, and the
\* instruction and the interval are still there
C14_Witness ==
    /\ nOutcome = "timeout"
    /\ nLastInstruction.text = "ahead"
    /\ nCmds = << >>
    /\ nInterval > clock

\* C15: the step that makes it three or more detection failures in a row
\* speaks the degraded-mode notice.
C15_DegradedNotice ==
    (nFailures >= 3 /\ nOutcome \in {"throws", "null", "timeout"})
        => \E i \in 1..Len(nCmds) :
              nCmds[i] = SpeakCmd(FixedPhrase("Detection temporarily unavailable"))

\* the taps are treated as C25 says, where `repeated` is the instruction a
\* single tap is to repeat: the tap timer has decided for the taps made since
\* its last decision and left the counter at 0, and a pending burst is counted
\* in full with its timer armed, 300 ms after its last tap
BurstsDecided(repeated) ==
    /\ lastOp = "tapTimer" =>
          /\ nTapCount = 0
          /\ nDecision.burst = 1 =>
                (nCmds = << SpeakCmd(repeated) >> /\ nIsPaused = nDecision.wasPaused)
          /\ nDecision.burst = 2 =>
                /\ nIsPaused = ~nDecision.wasPaused
                /\ Head(nCmds) = SpeakCmd(FixedPhrase(IF nDecision.wasPaused
                                                       THEN "Navigation resumed"
                                                       ELSE "Navigation paused"))
          /\ nDecision.burst \notin {1, 2} =>
                (nCmds = << >> /\ nIsPaused = nDecision.wasPaused)
    /\ lastOp = "tap" => nTapTimer = clock + tapWindowMs
    /\ nBurst > 0 => (nTapCount = nBurst /\ nTapTimer # NoTimer)
    /\ nBurst = 0 => (nTapCount = 0 /\ nTapTimer = NoTimer)

TapBurstsAsOfTap == BurstsDecided(nTapClosure.lastInstruction)

\* C32: when the tap timer has toggled the pause, the confirmation
\* ('Navigation paused' when pausing, 'Navigation resumed' when resuming) is the
\* last TTS command issued: no Tts.stop and no 'Navigation started' follow it.
C32_ConfirmationIsLast ==
    (lastOp = "tapTimer" /\ nDecision.kind = "toggle") =>
        nCmds[Len(nCmds)] = SpeakCmd(FixedPhrase(IF nDecision.wasPaused
                                                 THEN "Navigation resumed"
                                                 ELSE "Navigation paused"))

----------------------------------------------------------------------------
(* NavigationScreen_PRODUCTION.js: frames to the backend over a WebSocket *)

ProdMaxElapsed == 4000  \* the clock of this screen stops this long after StartClock
MaxSockets == 2         \* sockets made in one run, the first one included

framePeriodMs == 500
reconnectDelayMs == 3000

\* `${object} ahead, ${distance} meters` and
\* `${object} on the ${direction}, ${distance} meters`
prodInstruction(object, direction, distance) ==
    [text |-> IF direction = "center" THEN "ahead" ELSE "on the",
     object |-> object, direction |-> direction, distance |-> distance]

\* a message of the backend, as JSON.parse returns it
BackendMessage(type, object, direction, distance, severity) ==
    [type |-> type,
     data |-> [object |-> object, direction |-> direction, distance |-> distance,
               severity |-> severity]]

BackendMessages ==
    { BackendMessage("navigation", "person", d, 2, sv) :
          d \in {"center", "left"}, sv \in {"high", "medium", "low"} }
        \cup { BackendMessage("navigation", "clear", "center", 0, "low"),
               BackendMessage("status", "", "", 0, "") }

\* a step of this screen that speaks nothing, triggers no haptic and sends nothing
wQuiet ==
    /\ wCmds' = << >>
    /\ wHaptic' = "none"
    /\ wSend' = "none"

RemoveAt(seq, k) == [j \in 1..(Len(seq) - 1) |-> IF j < k THEN seq[j] ELSE seq[j + 1]]

\* requestCameraPermission after its await
wPermissionSettles ==
    /\ wPermission = "pending"
    /\ \E granted \in BOOLEAN :
          wPermission' = IF granted THEN "granted" ELSE "denied"
    /\ wQuiet
    /\ lastOp' = "permission"
    /\ UNCHANGED << wSentTo, wMounted, wIsNavigating, wSockets, wWs, wFrameInterval, wFrameWs,
                    wPhotos, wReplies, wReconnects, wLastInstruction >>
    /\ UNCHANGED << clock, pureVars, fastVars, ttsVars, slowVars, navVars, gestVars >>

\* websocket.onopen
wSocketOpens ==
    /\ \E i \in 1..Len(wSockets) :
          /\ wSockets[i] = "connecting"
          /\ wSockets' = [wSockets EXCEPT ![i] = "open"]
    /\ wCmds' = << SpeakCmd(FixedPhrase("Backend connected")) >>
    /\ wHaptic' = "none"
    /\ wSend' = "none"
    /\ lastOp' = "onopen"
    /\ UNCHANGED << wSentTo, wMounted, wPermission, wIsNavigating, wWs, wFrameInterval, wFrameWs,
                    wPhotos, wReplies, wReconnects, wLastInstruction >>
    /\ UNCHANGED << clock, pureVars, fastVars, ttsVars, slowVars, navVars, gestVars >>

\* the connection is lost or refused: websocket.onerror, when the loss is an
\* error, and websocket.onclose right after it.  What the backend had on its
\* way over this socket is lost with it.
wSocketCloses ==
    /\ Len(wSockets) < MaxSockets
    /\ \E i \in 1..Len(wSockets) : \E withError \in BOOLEAN :
          /\ wSockets[i] \in {"connecting", "open"}
          /\ wSockets' = [wSockets EXCEPT ![i] = "closed"]
          /\ wReplies' = SelectSeq(wReplies, LAMBDA r : r # i)
          /\ wCmds' = IF withError THEN << SpeakCmd(FixedPhrase("Connection error")) >>
                      ELSE << >>
    /\ wReconnects' = wReconnects \cup {clock + reconnectDelayMs}
    /\ wHaptic' = "none"
    /\ wSend' = "none"
    /\ lastOp' = "onclose"
    /\ UNCHANGED << wSentTo, wMounted, wPermission, wIsNavigating, wWs, wFrameInterval, wFrameWs,
                    wPhotos, wLastInstruction >>
    /\ UNCHANGED << clock, pureVars, fastVars, ttsVars, slowVars, navVars, gestVars >>

\* connectWebSocket as the callback of setTimeout(connectWebSocket, 3000)
connectWebSocket ==
    /\ \E due \in wReconnects :
          /\ clock >= due
          /\ wReconnects' = wReconnects \ {due}
    /\ wSockets' = Append(wSockets, "connecting")
    /\ wWs' = IF wMounted THEN Len(wSockets) + 1 ELSE wWs      \* setWs(websocket)
    /\ wQuiet
    /\ lastOp' = "reconnect"
    /\ UNCHANGED << wSentTo, wMounted, wPermission, wIsNavigating, wFrameInterval, wFrameWs,
                    wPhotos, wReplies, wLastInstruction >>
    /\ UNCHANGED << clock, pureVars, fastVars, ttsVars, slowVars, navVars, gestVars >>

\* startNavigation, called by the tap timer
wStartNavigation ==
    IF wPermission # "granted"
    THEN \* Alert.alert('Camera permission required')
         /\ wQuiet
         /\ UNCHANGED << wIsNavigating, wFrameInterval, wFrameWs >>
    ELSE /\ wIsNavigating' = TRUE
         /\ wCmds' = << SpeakCmd(FixedPhrase("Navigation started")) >>
         /\ wHaptic' = "none"
         /\ wSend' = "none"
         /\ wFrameInterval' = clock + framePeriodMs
         /\ wFrameWs' = wWs

\* stopNavigation, called by the tap timer
wStopNavigation ==
    /\ wIsNavigating' = FALSE
    /\ wCmds' = << SpeakCmd(FixedPhrase("Navigation paused")) >>
    /\ wHaptic' = "none"
    /\ wSend' = "none"
    /\ wFrameInterval' = NoTimer
    /\ UNCHANGED wFrameWs

\* the timer callback of handleTap with taps === 2
wDoubleTap ==
    /\ wMounted
    /\ IF wIsNavigating THEN wStopNavigation ELSE wStartNavigation
    /\ lastOp' = "doubleTap"
    /\ UNCHANGED << wSentTo, wMounted, wPermission, wSockets, wWs, wPhotos, wReplies,
                    wReconnects, wLastInstruction >>
    /\ UNCHANGED << clock, pureVars, fastVars, ttsVars, slowVars, navVars, gestVars >>

\* the callback of setInterval(captureAndSendFrame, 500), up to its await
wFrameFires ==
    /\ wFrameInterval # NoTimer
    /\ clock >= wFrameInterval
    /\ wFrameInterval' = clock + framePeriodMs
    /\ IF wFrameWs = 0 \/ wSockets[wFrameWs] # "open"
       THEN \* `!ws || ws.readyState !== WebSocket.OPEN`
            /\ wSend' = "skipped"
            /\ UNCHANGED wPhotos
       ELSE /\ Len(wPhotos) < MaxInFlight
            /\ wPhotos' = Append(wPhotos, wFrameWs)
            /\ wSend' = "none"
    /\ wCmds' = << >>
    /\ wHaptic' = "none"
    /\ lastOp' = "frame"
    /\ UNCHANGED << wSentTo, wMounted, wPermission, wIsNavigating, wSockets, wWs, wFrameWs,
                    wReplies, wReconnects, wLastInstruction >>
    /\ UNCHANGED << clock, pureVars, fastVars, ttsVars, slowVars, navVars, gestVars >>

\* captureAndSendFrame after its await: ws.send, or the catch when takePhoto
\* rejected.  The backend answers a frame it received with one message.
wPhotoSettles ==
    /\ \E k \in 1..Len(wPhotos) : \E taken \in BOOLEAN :
          /\ wPhotos' = RemoveAt(wPhotos, k)
          /\ IF ~taken
             THEN /\ wSend' = "photoFailed"
                  /\ UNCHANGED << wReplies, wSentTo >>
             ELSE IF wSockets[wPhotos[k]] = "open"
             THEN /\ wSend' = "sent"
                  /\ wSentTo' = wSentTo \cup {wPhotos[k]}
                  /\ wReplies' = IF Len(wReplies) < MaxInFlight
                                 THEN Append(wReplies, wPhotos[k]) ELSE wReplies
             ELSE /\ wSend' = "sentNotOpen"
                  /\ UNCHANGED << wReplies, wSentTo >>
    /\ wCmds' = << >>
    /\ wHaptic' = "none"
    /\ lastOp' = "photo"
    /\ UNCHANGED << wMounted, wPermission, wIsNavigating, wSockets, wWs, wFrameInterval,
                    wFrameWs, wReconnects, wLastInstruction >>
    /\ UNCHANGED << clock, pureVars, fastVars, ttsVars, slowVars, navVars, gestVars >>

\* the haptic handleNavigationData picks from the severity
severityHaptic(severity) ==
    IF severity = "high" THEN "notificationError"
    ELSE IF severity = "medium" THEN "notificationWarning"
    ELSE "impactLight"

\* handleNavigationData(data)
handleNavigationData(data) ==
    IF data.object = "clear"
    THEN /\ wCmds' = << >>
         /\ wHaptic' = "none"
         /\ UNCHANGED wLastInstruction
    ELSE /\ wLastInstruction' =
                IF wMounted
                THEN prodInstruction(data.object, data.direction, data.distance)
                ELSE wLastInstruction
         /\ wCmds' = << SpeakCmd(prodInstruction(data.object, data.direction,
                                                 data.distance)) >>
         /\ wHaptic' = severityHaptic(data.severity)

\* websocket.onmessage
wMessage ==
    /\ \E k \in 1..Len(wReplies) : \E message \in BackendMessages :
          /\ wSockets[wReplies[k]] = "open"
          /\ wReplies' = RemoveAt(wReplies, k)
          /\ IF message.type = "navigation"
             THEN handleNavigationData(message.data)
             ELSE /\ wCmds' = << >>
                  /\ wHaptic' = "none"
                  /\ UNCHANGED wLastInstruction
    /\ wSend' = "none"
    /\ lastOp' = "onmessage"
    /\ UNCHANGED << wSentTo, wMounted, wPermission, wIsNavigating, wSockets, wWs, wFrameInterval,
                    wFrameWs, wPhotos, wReconnects >>
    /\ UNCHANGED << clock, pureVars, fastVars, ttsVars, slowVars, navVars, gestVars >>

\* the screen unmounts: cleanup() as the mount effect holds it, which is the
\* cleanup of the first render, where `ws` is still null
wUnmount ==
    /\ wMounted
    /\ wMounted' = FALSE
    /\ wFrameInterval' = NoTimer
    /\ wCmds' = << StopCmd >>
    /\ wHaptic' = "none"
    /\ wSend' = "none"
    /\ lastOp' = "unmount"
    /\ UNCHANGED << wSentTo, wPermission, wIsNavigating, wSockets, wWs, wFrameWs, wPhotos,
                    wReplies, wReconnects, wLastInstruction >>
    /\ UNCHANGED << clock, pureVars, fastVars, ttsVars, slowVars, navVars, gestVars >>

\* time passes; a timer that is due runs first
ProdAdvance ==
    /\ clock + framePeriodMs <= StartClock + ProdMaxElapsed
    /\ (wFrameInterval = NoTimer \/ clock < wFrameInterval)
    /\ \A due \in wReconnects : clock < due
    /\ clock' = clock + framePeriodMs
    /\ wQuiet
    /\ lastOp' = "advance"
    /\ UNCHANGED << wSentTo, wMounted, wPermission, wIsNavigating, wSockets, wWs, wFrameInterval,
                    wFrameWs, wPhotos, wReplies, wReconnects, wLastInstruction >>
    /\ UNCHANGED << pureVars, fastVars, ttsVars, slowVars, navVars, gestVars >>

ProdInit ==
    /\ clock = StartClock
    /\ pIn = NoInput
    /\ pOut = NoOutput
    /\ FastConstructed
    /\ TtsConstructed
    /\ SlowConstructed
    /\ NavConstructed
    /\ AppConstructed
    /\ ProdConstructed
    /\ lastOp = "init"

ProdNext ==
    \/ wPermissionSettles
    \/ wSocketOpens
    \/ wSocketCloses
    \/ connectWebSocket
    \/ wDoubleTap
    \/ wFrameFires
    \/ wPhotoSettles
    \/ wMessage
    \/ wUnmount
    \/ ProdAdvance

SpecProd == ProdInit /\ [][ProdNext]_vars

\* the last step spoke a detection instruction
wSpokeInstruction ==
    \E i \in 1..Len(wCmds) : wCmds[i].phrase.text \in {"ahead", "on the"}

\* C26: while navigation is paused no detection instruction is spoken and no
\* detection haptic is triggered, also not for a frame or a backend message
\* that was on its way when the pause happened.
C26_SilentWhilePaused ==
    (wMounted /\ ~wIsNavigating)
        => (~wSpokeInstruction
            /\ wHaptic \notin {"notificationError", "notificationWarning", "impactLight"})

\* SpecProd with its timers fair: time passes, a timer that is due runs its
\* callback (the frame interval, the reconnect time-out), and a takePhoto that
\* was started settles
SpecProdFair ==
    /\ ProdInit
    /\ [][ProdNext]_vars
    /\ WF_vars(ProdAdvance)
    /\ WF_vars(wFrameFires)
    /\ WF_vars(connectWebSocket)
    /\ WF_vars(wPhotoSettles)

\* navigation is running and the socket of the current render is open
wRunningOnOpenSocket ==
    /\ wMounted
    /\ wIsNavigating
    /\ wWs # 0
    /\ wSockets[wWs] = "open"

\* the run has time left for the frame interval to fire and the photo to settle
wTimeForACycle == clock + 2 * framePeriodMs <= StartClock + ProdMaxElapsed

StaleSocketSkips ==
    (lastOp = "frame" /\ wFrameWs # wWs) => wSend = "skipped"

\* the sockets this screen made are all closed
wAllClosed == \A i \in 1..Len(wSockets) : wSockets[i] = "closed"

\* C34: once the screen has unmounted, its WebSocket is closed, no reconnect is
\* scheduled or made, and no navigation instruction is spoken.
C34_UnmountReleases ==
    ~wMounted =>
        /\ wAllClosed
        /\ wReconnects = {}
        /\ lastOp # "reconnect"
        /\ ~wSpokeInstruction

\* C36: captureAndSendFrame never calls ws.send on a socket that is not open,
\* also not when the socket closed while the takePhoto of the cycle was pending.
C36_SendOnlyWhenOpen == wSend # "sentNotOpen"

----------------------------------------------------------------------------
(* The screens of App.js (part_006): HomeScreen, NavigationScreen, *)
(* EmergencyScreen and SettingsScreen under one stack navigator      *)

HomeMaxTaps == 4        \* taps made on the Home screen in one run
MaxSwipes == 3          \* swipes made on the Navigation screen in one run
EmergMaxTaps == 2       \* taps made on the Emergency screen in one run

homeTapVars == << hTapCount, hTapTimer, hBurst, hTapsSoFar, hDecision >>
rateVars == << gSpeechRate, gPanRate, gUps, gDowns >>
emergVars == << ePending, eTapsSoFar, eSmsOpened, eAlerts >>

\* the focused route
Top == gStack[Len(gStack)]

\* the window of the multi-tap detection of HomeScreen
homeTapWindowMs == 300

\* HomeScreen.handlePress.  The Pressable has no onLongPress, so a press that
\* is held calls onPress like any other when it is released.
handlePress ==
    /\ Top = "Home"
    /\ hTapsSoFar < HomeMaxTaps
    /\ hTapsSoFar' = hTapsSoFar + 1
    /\ hBurst' = hBurst + 1
    /\ hTapCount' = hTapCount + 1
    /\ hTapTimer' = clock + homeTapWindowMs
    /\ \E kind \in {"tap", "longPress"} : gGesture' = [kind |-> kind, screen |-> "Home"]
    /\ gNavigated' = "none"
    /\ gCmds' = << >>
    /\ eLookup' = NoLookup
    /\ lastOp' = "homePress"
    /\ UNCHANGED << gStack, hDecision, rateVars, emergVars >>
    /\ UNCHANGED << clock, pureVars, fastVars, ttsVars, slowVars, navVars, prodVars >>

\* a decision that takes every burst of two or more taps for a double tap
homeDecision_twoOrMore(taps) == IF taps >= 2 THEN "Navigation" ELSE "none"

\* `if (taps === 2) ... else if (taps === 3) ...`
homeDecision(taps) ==
    IF taps = 2 THEN "Navigation" ELSE IF taps = 3 THEN "Settings" ELSE "none"

\* the callback of the tap timer of HomeScreen; NavigationScreen is mounted by
\* navigate('Navigation') and speaks in its effect
hTapTimerFires ==
    /\ hTapTimer # NoTimer
    /\ clock >= hTapTimer
    /\ hTapTimer' = NoTimer
    /\ hTapCount' = 0
    /\ hBurst' = 0
    /\ hDecision' = [taps |-> hTapCount, burst |-> hBurst]
    /\ gNavigated' = homeDecision(hTapCount)
    /\ IF homeDecision(hTapCount) = "Navigation"
       THEN /\ gStack' = Append(gStack, "Navigation")
            /\ gCmds' = << "Starting navigation", "Navigation started" >>
            /\ gSpeechRate' = 5
            /\ gPanRate' = 5
            /\ gUps' = 0
            /\ gDowns' = 0
       ELSE IF homeDecision(hTapCount) = "Settings"
       THEN /\ gStack' = Append(gStack, "Settings")
            /\ gCmds' = << "Opening settings" >>
            /\ UNCHANGED rateVars
       ELSE /\ gCmds' = << >>
            /\ UNCHANGED << gStack, rateVars >>
    /\ gGesture' = NoGesture
    /\ eLookup' = NoLookup
    /\ lastOp' = "homeTimer"
    /\ UNCHANGED << hTapsSoFar, emergVars >>
    /\ UNCHANGED << clock, pureVars, fastVars, ttsVars, slowVars, navVars, prodVars >>

\* the back button of SettingsScreen
settingsBack ==
    /\ Top = "Settings"
    /\ gStack' = SubSeq(gStack, 1, Len(gStack) - 1)
    /\ gCmds' = << "Returning to home" >>
    /\ gNavigated' = "back"
    /\ gGesture' = [kind |-> "tap", screen |-> "Settings"]
    /\ eLookup' = NoLookup
    /\ lastOp' = "settingsBack"
    /\ UNCHANGED << homeTapVars, rateVars, emergVars >>
    /\ UNCHANGED << clock, pureVars, fastVars, ttsVars, slowVars, navVars, prodVars >>

\* NavigationScreen.handleLongPress, and the onPress of its emergency button;
\* EmergencyScreen is mounted by navigate('Emergency') and speaks in its effect
handleLongPress ==
    /\ Top = "Navigation"
    /\ \E kind \in {"longPress", "button"} :
          /\ gGesture' = [kind |-> kind, screen |-> "Navigation"]
          /\ gCmds' = << IF kind = "longPress" THEN "Emergency mode activated"
                         ELSE "Emergency mode",
                         "Emergency activated. Tap the screen to send help message." >>
    /\ gStack' = Append(gStack, "Emergency")
    /\ gNavigated' = "Emergency"
    /\ eLookup' = NoLookup
    /\ lastOp' = "navLongPress"
    /\ UNCHANGED << homeTapVars, rateVars, emergVars >>
    /\ UNCHANGED << clock, pureVars, fastVars, ttsVars, slowVars, navVars, prodVars >>

\* the vertical travel of a released touch, in pixels
SwipeDys == {0 - 60, 0 - 50, 50, 60}

\* mutant of newRate: a whole step in tenths and no clamp
newRate_wholeStepUnclamped(rate, dy) == IF dy < 0 THEN rate + 10 ELSE rate - 10

\* newRate of a swipe, in tenths: Math.min(speechRate + 0.1, 1.0) for a swipe
\* up (dy < 0), Math.max(speechRate - 0.1, 0.3) for a swipe down
newRate(rate, dy) == IF dy < 0 THEN Min(rate + 1, 10) ELSE Max(rate - 1, 3)

\* onPanResponderRelease of the panResponder, which useRef keeps from the first
\* render of the screen: its `speechRate` is the one of that render
onPanResponderRelease ==
    /\ Top = "Navigation"
    /\ gUps + gDowns < MaxSwipes
    /\ \E dy \in SwipeDys :
          IF dy < 0 - 50
          THEN /\ gSpeechRate' = newRate(gPanRate, dy)
               /\ gUps' = gUps + 1
               /\ gCmds' = << "Speech speed increased" >>
               /\ gGesture' = [kind |-> "swipeUp", screen |-> "Navigation"]
               /\ UNCHANGED gDowns
          ELSE IF dy > 50
          THEN /\ gSpeechRate' = newRate(gPanRate, dy)
               /\ gDowns' = gDowns + 1
               /\ gCmds' = << "Speech speed decreased" >>
               /\ gGesture' = [kind |-> "swipeDown", screen |-> "Navigation"]
               /\ UNCHANGED gUps
          ELSE /\ gCmds' = << >>
               /\ gGesture' = [kind |-> "release", screen |-> "Navigation"]
               /\ UNCHANGED << gSpeechRate, gUps, gDowns >>
    /\ gNavigated' = "none"
    /\ eLookup' = NoLookup
    /\ lastOp' = "swipe"
    /\ UNCHANGED << gStack, gPanRate, homeTapVars, emergVars >>
    /\ UNCHANGED << clock, pureVars, fastVars, ttsVars, slowVars, navVars, prodVars >>

\* EmergencyScreen.sendEmergency up to the call of getCurrentPosition; the
\* alert of an earlier tap is modal and takes the touches while it is shown
sendEmergency ==
    /\ Top = "Emergency"
    /\ eAlerts = 0
    /\ eTapsSoFar < EmergMaxTaps
    /\ eTapsSoFar' = eTapsSoFar + 1
    /\ ePending' = ePending + 1
    /\ gCmds' = << "Sending emergency alert" >>
    /\ gGesture' = [kind |-> "tap", screen |-> "Emergency"]
    /\ gNavigated' = "none"
    /\ eLookup' = NoLookup
    /\ lastOp' = "emergencyTap"
    /\ UNCHANGED << gStack, homeTapVars, rateVars, eSmsOpened, eAlerts >>
    /\ UNCHANGED << clock, pureVars, fastVars, ttsVars, slowVars, navVars, prodVars >>

\* a screen that gives up when the position is not found
smsFor_needsLocation(found) == IF found THEN "withLocation" ELSE "none"

\* the sms: URL given to Linking.openURL by the two callbacks
smsFor(found) == IF found THEN "withLocation" ELSE "withoutLocation"

\* a callback of getCurrentPosition: the position was found, or the lookup
\* failed or ran into its 5000 ms timeout
lookupSettles ==
    /\ ePending > 0
    /\ ePending' = ePending - 1
    /\ \E found \in BOOLEAN :
          /\ eLookup' = [found |-> found, sms |-> smsFor(found)]
          /\ eSmsOpened' = eSmsOpened + (IF smsFor(found) = "none" THEN 0 ELSE 1)
          /\ IF found
             THEN /\ gCmds' = << "Emergency message sent. Help is on the way." >>
                  /\ eAlerts' = eAlerts + 1
             ELSE /\ gCmds' = << "Could not get location. Sending emergency alert anyway." >>
                  /\ UNCHANGED eAlerts
    /\ gGesture' = NoGesture
    /\ gNavigated' = "none"
    /\ lastOp' = "lookup"
    /\ UNCHANGED << gStack, homeTapVars, rateVars, eTapsSoFar >>
    /\ UNCHANGED << clock, pureVars, fastVars, ttsVars, slowVars, navVars, prodVars >>

\* the OK of the alert: navigation.goBack()
alertOk ==
    /\ eAlerts > 0
    /\ eAlerts' = eAlerts - 1
    /\ gStack' = IF Len(gStack) > 1 THEN SubSeq(gStack, 1, Len(gStack) - 1) ELSE gStack
    /\ gNavigated' = "back"
    /\ gCmds' = << >>
    /\ gGesture' = [kind |-> "tap", screen |-> "alert"]
    /\ eLookup' = NoLookup
    /\ lastOp' = "alertOk"
    /\ UNCHANGED << homeTapVars, rateVars, ePending, eTapsSoFar, eSmsOpened >>
    /\ UNCHANGED << clock, pureVars, fastVars, ttsVars, slowVars, navVars, prodVars >>

\* the times at which something is due after `clock`
AppDueTimes == {clock + TickMs} \cup (IF hTapTimer = NoTimer THEN {} ELSE {hTapTimer})

\* time passes, up to the next tick or to the tap timer; a timer that is due
\* runs first
AppAdvance ==
    /\ hTapTimer = NoTimer \/ clock < hTapTimer
    /\ \E next \in AppDueTimes :
          /\ \A t \in AppDueTimes : next <= t
          /\ next <= StartClock + MaxElapsed
          /\ clock' = next
    /\ gGesture' = NoGesture
    /\ gNavigated' = "none"
    /\ gCmds' = << >>
    /\ eLookup' = NoLookup
    /\ lastOp' = "advance"
    /\ UNCHANGED << gStack, homeTapVars, rateVars, emergVars >>
    /\ UNCHANGED << pureVars, fastVars, ttsVars, slowVars, navVars, prodVars >>

AppInit ==
    /\ clock = StartClock
    /\ pIn = NoInput
    /\ pOut = NoOutput
    /\ FastConstructed
    /\ TtsConstructed
    /\ SlowConstructed
    /\ NavConstructed
    /\ ProdConstructed
    /\ AppConstructed
    /\ lastOp = "init"

AppNext ==
    \/ handlePress
    \/ hTapTimerFires
    \/ settingsBack
    \/ handleLongPress
    \/ onPanResponderRelease
    \/ sendEmergency
    \/ lookupSettles
    \/ alertOk
    \/ AppAdvance

SpecApp == AppInit /\ [][AppNext]_vars

\* C27: when the 300 ms window after the last tap of a burst on Home expires,
\* a burst of two taps navigates to Navigation, a burst of three to Settings,
\* any other burst navigates nowhere; the step navigates at most once, the tap
\* counter is 0 afterwards, and a pending burst is counted in full.
C27_HomeBursts ==
    /\ lastOp = "homeTimer" =>
          /\ hTapCount = 0
          /\ hDecision.burst = 2 => (gNavigated = "Navigation" /\ Top = "Navigation")
          /\ hDecision.burst = 3 => (gNavigated = "Settings" /\ Top = "Settings")
          /\ hDecision.burst \notin {2, 3} => (gNavigated = "none" /\ gStack = << "Home" >>)
          /\ Len(gStack) <= 2
    /\ lastOp = "homePress" => (gNavigated = "none" /\ hTapTimer = clock + homeTapWindowMs)
    /\ hBurst > 0 => (hTapCount = hBurst /\ hTapTimer # NoTimer)
    /\ hBurst = 0 => (hTapCount = 0 /\ hTapTimer = NoTimer)

\* a burst of three taps opened the settings after an earlier burst
C27_Witness ==
    /\ lastOp = "homeTimer"
    /\ hDecision.burst = 3
    /\ hTapsSoFar = 4
    /\ Top = "Settings"

\* C28: a long press on the Home screen or on the Navigation screen navigates
\* to the Emergency screen, whatever the state of the screen.
C28_LongPressReachesEmergency ==
    (gGesture.kind = "longPress" /\ gGesture.screen \in {"Home", "Navigation"})
        => (gNavigated = "Emergency" /\ Top = "Emergency")

\* C29: after k swipes up and no swipe down the speech rate is
\* min(0.5 + 0.1 k, 1.0); after k swipes down and no swipe up it is
\* max(0.5 - 0.1 k, 0.3).
C29_SwipesAccumulate ==
    /\ (gUps > 0 /\ gDowns = 0) => gSpeechRate = Min(5 + gUps, 10)
    /\ (gDowns > 0 /\ gUps = 0) => gSpeechRate = Max(5 - gDowns, 3)

\* C30: every tap on the Emergency screen has opened an SMS composer or has
\* its location lookup still pending; a lookup that finds the position opens
\* the message with the location, one that fails opens it without.
C30_EveryTapOpensSms ==
    /\ eTapsSoFar = eSmsOpened + ePending
    /\ lastOp = "lookup" =>
          eLookup.sms = (IF eLookup.found THEN "withLocation" ELSE "withoutLocation")

\* two taps were made and both have their message; the lookup that settled
\* last had failed, and its message went out without the location
C30_Witness ==
    /\ lastOp = "lookup"
    /\ ~eLookup.found
    /\ eLookup.sms = "withoutLocation"
    /\ eTapsSoFar = 2
    /\ eSmsOpened = 2

\* C31: whatever swipes up and down were made on the Navigation screen, the
\* speech rate handed to the TTS engine lies in [0.3, 1.0] (3..10 tenths).
C31_RateInRange == 3 <= gSpeechRate /\ gSpeechRate <= 10

\* swipes in both directions were made, the last one a swipe down
C31_Witness ==
    /\ gUps > 0
    /\ gDowns > 0
    /\ gGesture.kind = "swipeDown"
    /\ gCmds = << "Speech speed decreased" >>

====
